---- MODULE Spec2Model ----
(***************************************************************************)
(* Model of src/src/async_impl/pay.rs: the request methods of WechatPay.   *)
(* Every invocation of a public method is a process occupying one slot;    *)
(* its position (pc) advances through the synchronous prefix of the        *)
(* method, the build_header call, the transport send and the two await     *)
(* points (send().await and json()/text().await).                          *)
(*                                                                         *)
(* Strings that the code only copies are TLA+ strings.  A request body is  *)
(* a record [kind, pairs]: kind "empty" is the string "", kind "object" is *)
(* the text of a JSON object whose members are the key/value pairs in the  *)
(* order written, kind "other" is any text that is not a JSON object.      *)
(* The page text read by get_weixin is a sequence of characters.           *)
(***************************************************************************)
EXTENDS Integers, Sequences, FiniteSets, TLC

VARIABLES client, certData, pc, call, body, signedReq, signedHdr, sentReq,
          nSign, nSend, resp, result

vars == <<client, certData, pc, call, body, signedReq, signedHdr, sentReq,
          nSign, nSend, resp, result>>

(***************************************************************************)
(* Bounds                                                                  *)
(***************************************************************************)
\* invocations that run concurrently under SpecConc
NumInv == 2
\* members of a JSON object produced by to_json
MaxPairs == 2
\* tokens a fetched page is made of
MaxTokens == 3

(***************************************************************************)
(* Option values                                                           *)
(***************************************************************************)
None == [some |-> FALSE]

Some(x) == [some |-> TRUE, v |-> x]

(***************************************************************************)
(* The client (self): immutable configuration read through accessors       *)
(***************************************************************************)
TheClient ==
    [appid |-> "wx_appid", mch_id |-> "mch_1", notify_url |-> "https://notify",
     base_url |-> "https://api.mch.weixin.qq.com"]

HttpMethod == {"GET", "POST", "PUT", "DELETE", "PATCH"}

\* format!("{}{}", self.base_url(), url)
FormatUrl(base, url) == <<base, url>>

(***************************************************************************)
(* JSON bodies                                                             *)
(***************************************************************************)
\* keys in the order a BTreeMap iterates them
KeyOrder == <<"appid", "mchid", "notify_url", "out_trade_no">>

Keys == {KeyOrder[k] : k \in 1..Len(KeyOrder)}

\* members a caller's parameters serialize to; appid and mchid collide with
\* the keys pay sets itself
Members == {<<"appid", "v1">>, <<"mchid", "v1">>,
            <<"out_trade_no", "v1">>, <<"out_trade_no", "v2">>}

EmptyBody == [kind |-> "empty", pairs |-> <<>>]

OtherBody == [kind |-> "other", pairs |-> <<>>]

ObjectBody(ps) == [kind |-> "object", pairs |-> ps]

PairSeqs(n) == UNION {[1..m -> Members] : m \in 0..n}

\* what ParamsTrait::to_json can hand back
JsonStrs == {ObjectBody(ps) : ps \in PairSeqs(MaxPairs)} \cup {OtherBody}

\* serde_json::from_str::<Map<String, Value>>: a later member replaces an
\* earlier one with the same key
RECURSIVE FromPairs(_, _)
FromPairs(ps, m) ==
    IF ps = <<>> THEN m
    ELSE LET k == Head(ps)[1]
             v == Head(ps)[2]
         IN  FromPairs(Tail(ps),
                 [x \in (DOMAIN m) \cup {k} |-> IF x = k THEN v ELSE m[x]])

EmptyMap == [x \in {} |-> "v1"]

from_str(s) ==
    IF s.kind = "object" THEN Some(FromPairs(s.pairs, EmptyMap)) ELSE None

\* Map::insert
insert(m, k, v) == [x \in (DOMAIN m) \cup {k} |-> IF x = k THEN v ELSE m[x]]

\* serde_json::to_string(&map): members in key order
RECURSIVE ToPairs(_, _)
ToPairs(m, k) ==
    IF k > Len(KeyOrder) THEN <<>>
    ELSE IF KeyOrder[k] \in DOMAIN m
         THEN <<(<<KeyOrder[k], m[KeyOrder[k]]>>)>> \o ToPairs(m, k + 1)
         ELSE ToPairs(m, k + 1)

to_string(m) == ObjectBody(ToPairs(m, 1))

\* a body that keeps the caller's appid, mchid and notify_url when given
PayBody_keep_existing(c, m) ==
    LET keep(mm, k, v) == IF k \in DOMAIN mm THEN mm ELSE insert(mm, k, v)
    IN  to_string(keep(keep(keep(m, "appid", c.appid), "mchid", c.mch_id),
                       "notify_url", c.notify_url))

\* lines 45-49 of pay: the body built from the parsed parameters
PayBody(c, m) ==
    to_string(insert(insert(insert(m, "appid", c.appid),
                            "mchid", c.mch_id),
                     "notify_url", c.notify_url))

(***************************************************************************)
(* Request signing (Signer, reached through self.build_header)             *)
(***************************************************************************)
\* the clock reading and the random string one build_header call draws
Timestamps == {"t0"}

Nonces == {"n1", "n2"}

\* method, url_path, timestamp, nonce, body, each on a line of its own
CanonicalString(method, url, ts, nonce, b) == <<method, url, ts, nonce, b>>

\* the header map of a signed request
build_header(c, method, url, b, ts, nonce) ==
    [kind |-> "authorization", mchid |-> c.mch_id, nonce_str |-> nonce,
     timestamp |-> ts, signature |-> CanonicalString(method, url, ts, nonce, b),
     referer |-> ""]

\* lines 148-149 of get_weixin: a header map holding REFERER only
RefererHeaders(referer) ==
    [kind |-> "referer", mchid |-> "", nonce_str |-> "", timestamp |-> "",
     signature |-> <<>>, referer |-> referer]

\* HeaderValue parsing rejects control characters
Referers == {"https://mydomain.com", "bad\nreferer"}

ValidHeaderValue(r) == r # "bad\nreferer"

(***************************************************************************)
(* Operations                                                              *)
(***************************************************************************)
PayWrappers == {"h5_pay", "app_pay", "jsapi_pay", "micro_pay", "native_pay"}

PayOps == {"pay"} \cup PayWrappers

GetOps == {"get_pay", "certificates"}

PostOps == {"refunds", "transfer_bills"}

SignedOps == PayOps \cup GetOps \cup PostOps

SignDataOps == {"app_pay", "jsapi_pay", "micro_pay"}

\* url literals of the endpoint wrappers
UrlOf(o) ==
    CASE o = "h5_pay" -> "/v3/pay/transactions/h5"
      [] o = "app_pay" -> "/v3/pay/transactions/app"
      [] o = "jsapi_pay" -> "/v3/pay/transactions/jsapi"
      [] o = "micro_pay" -> "/v3/pay/transactions/jsapi"
      [] o = "native_pay" -> "/v3/pay/transactions/native"
      [] o = "certificates" -> "/v3/certificates"
      [] o = "refunds" -> "/v3/refund/domestic/refunds"
      [] o = "transfer_bills" -> "/v3/fund-app/mch-transfer/transfer-bills"

\* paths a caller hands to pay and get_pay directly
CallerPaths == {"/v3/pay/transactions/native", "/v3/certificates"}

PayPaths == {"/v3/pay/transactions/native"}

H5Urls == {"https://wx.tenpay.com/checkmweb"}

\* the method handed to build_header
SignMethod(c) ==
    IF c.op \in PayOps THEN c.method
    ELSE IF c.op \in GetOps THEN "GET" ELSE "POST"

\* the match with the PUT arm building a POST request
MatchMethod_put_as_post(method) ==
    CASE method = "GET" -> "GET"
      [] method = "POST" -> "POST"
      [] method = "PUT" -> "POST"
      [] method = "DELETE" -> "DELETE"
      [] method = "PATCH" -> "PATCH"

\* lines 54-60 of pay: the request builder chosen by the match
MatchMethod(method) ==
    CASE method = "GET" -> "GET"
      [] method = "POST" -> "POST"
      [] method = "PUT" -> "PUT"
      [] method = "DELETE" -> "DELETE"
      [] method = "PATCH" -> "PATCH"

\* the builder each method uses: the match, client.get or client.post
SendMethod(c) ==
    IF c.op \in PayOps THEN MatchMethod(c.method)
    ELSE IF c.op \in GetOps THEN "GET" ELSE "POST"

(***************************************************************************)
(* Responses                                                               *)
(***************************************************************************)
ServerSignData == [app_id |-> "srv_appid", package |-> <<"srv", "srv">>]

RespVal(k) ==
    CASE k = "code" -> "PARAM_ERROR"
      [] k = "prepay_id" -> "wx_prepay_1"
      [] k = "sign_data" -> ServerSignData

\* the fields of the response type R an operation decodes into
Fields(o) ==
    IF o \in {"pay"} \cup SignDataOps THEN {"code", "prepay_id", "sign_data"}
    ELSE {"code"}

\* JSON objects a server can answer operation o with: any of the members R
\* has a field for, and prepay_id whether R has the field or not
RespObjs(o) ==
    {[k \in S |-> RespVal(k)] : S \in SUBSET (Fields(o) \cup {"prepay_id"})}

JsonRespBody(o) == [kind |-> "json", obj |-> o, text |-> <<>>]

BadRespBody == [kind |-> "bad", obj |-> [k \in {} |-> "PARAM_ERROR"], text |-> <<>>]

TextRespBody(t) == [kind |-> "text", obj |-> [k \in {} |-> "PARAM_ERROR"], text |-> t]

StatusCodes == {200, 401}

\* Response::json::<R>(): absent Option fields are None, unknown members are
\* ignored, a body that is not a JSON object fails
json_decode(o, b) ==
    IF b.kind = "json"
    THEN Some([f \in Fields(o) |->
                 IF f \in DOMAIN b.obj THEN Some(b.obj[f]) ELSE None])
    ELSE None

\* self.mut_sign_data(prefix, prepay_id)
mut_sign_data(c, prefix, prepay_id) ==
    [app_id |-> c.appid, package |-> <<prefix, prepay_id>>]

\* app_pay signing with the jsapi prefix
SignPrefix_always_prepay(o) == "prepay_id="

\* the prefix literal each wrapper passes to mut_sign_data
SignPrefix(o) == IF o = "app_pay" THEN "" ELSE "prepay_id="

\* the closure passed to map in app_pay, jsapi_pay and micro_pay
MapSignData(c, o, r) ==
    IF r["prepay_id"].some
    THEN [r EXCEPT !["sign_data"] =
              Some(mut_sign_data(c, SignPrefix(o), r["prepay_id"].v))]
    ELSE r

(***************************************************************************)
(* get_weixin: the scan of the fetched page (lines 157-164)                *)
(***************************************************************************)
Weixin == <<"w", "e", "i", "x", "i", "n", ":", "/", "/">>

Newline == "\n"

Quote == "\""

\* pieces pages are built from: the scheme, its two halves, the two
\* delimiters and an ordinary character
Tokens == {Weixin, SubSeq(Weixin, 1, 7), SubSeq(Weixin, 8, 9),
           <<Quote>>, <<Newline>>, <<"a">>}

RECURSIVE Flatten(_)
Flatten(ts) == IF ts = <<>> THEN <<>> ELSE Head(ts) \o Flatten(Tail(ts))

Texts == {Flatten(ts) : ts \in UNION {[1..n -> Tokens] : n \in 0..MaxTokens}}

\* str::contains
contains(s, pat) ==
    \E k \in 1..(Len(s) - Len(pat) + 1) : SubSeq(s, k, k + Len(pat) - 1) = pat

\* str::split on a one-character delimiter: n delimiters give n + 1 pieces
RECURSIVE SplitFrom(_, _, _)
SplitFrom(s, d, cur) ==
    IF s = <<>> THEN <<cur>>
    ELSE IF Head(s) = d THEN <<cur>> \o SplitFrom(Tail(s), d, <<>>)
         ELSE SplitFrom(Tail(s), d, Append(cur, Head(s)))

split(s, d) == SplitFrom(s, d, <<>>)

\* Iterator::find over a sequence of pieces
find(pieces, pat) ==
    IF \E k \in 1..Len(pieces) : contains(pieces[k], pat)
    THEN Some(pieces[CHOOSE k \in 1..Len(pieces) :
                       /\ contains(pieces[k], pat)
                       /\ \A j \in 1..(k - 1) : ~contains(pieces[j], pat)])
    ELSE None

Ok(x) == [tag |-> "ok", err |-> "", value |-> x]

Err(e) == [tag |-> "err", err |-> e, value |-> None]

NoResult == [tag |-> "none", err |-> "", value |-> None]

\* a scan that takes the piece after the first quote (nth(1)) of the line
ScanWeixin_second_piece(text) ==
    LET line == find(split(text, Newline), Weixin)
    IN  IF line.some
        THEN LET pieces == split(line.v, Quote)
             IN  Ok(IF Len(pieces) >= 2 THEN Some(pieces[2]) ELSE None)
        ELSE Err("WeixinNotFound")

\* lines 157-164: find the line, map it to the quoted piece, ok_or_else
ScanWeixin(text) ==
    LET line == find(split(text, Newline), Weixin)
    IN  IF line.some
        THEN Ok(find(split(line.v, Quote), Weixin))
        ELSE Err("WeixinNotFound")

(***************************************************************************)
(* State                                                                   *)
(***************************************************************************)
NoCall == [op |-> "none", method |-> "GET", url |-> "", json |-> EmptyBody,
           referer |-> ""]

InitSlots(n) ==
    /\ client = TheClient
    /\ certData = None
    /\ pc = [i \in 1..n |-> "idle"]
    /\ call = [i \in 1..n |-> NoCall]
    /\ body = [i \in 1..n |-> None]
    /\ signedReq = [i \in 1..n |-> None]
    /\ signedHdr = [i \in 1..n |-> None]
    /\ sentReq = [i \in 1..n |-> None]
    /\ nSign = [i \in 1..n |-> 0]
    /\ nSend = [i \in 1..n |-> 0]
    /\ resp = [i \in 1..n |-> None]
    /\ result = [i \in 1..n |-> NoResult]

\* one invocation at a time
Init == InitSlots(1)

\* NumInv invocations sharing the client
InitConc == InitSlots(NumInv)

Slots == DOMAIN pc

(***************************************************************************)
(* Entry of the signed methods: the code up to the build_header call       *)
(***************************************************************************)
Enter(i, c) ==
    /\ pc[i] = "idle"
    /\ call' = [call EXCEPT ![i] = c]

\* lines 43-49: to_json, from_str, the three inserts, to_string
PayEntry(i, o, method, url, json) ==
    /\ Enter(i, [op |-> o, method |-> method, url |-> url, json |-> json,
                 referer |-> ""])
    /\ LET map == from_str(json)
       IN  IF map.some
           THEN /\ body' = [body EXCEPT ![i] = Some(PayBody(client, map.v))]
                /\ pc' = [pc EXCEPT ![i] = "build_header"]
                /\ result' = result
           ELSE /\ body' = body
                /\ pc' = [pc EXCEPT ![i] = "done"]
                /\ result' = [result EXCEPT ![i] = Err("Json")]
    /\ UNCHANGED <<client, certData, signedReq, signedHdr, sentReq, nSign,
                   nSend, resp>>

pay(i, method, url, json) == PayEntry(i, "pay", method, url, json)

h5_pay(i, params) == PayEntry(i, "h5_pay", "POST", UrlOf("h5_pay"), params)

app_pay(i, params) == PayEntry(i, "app_pay", "POST", UrlOf("app_pay"), params)

jsapi_pay(i, params) ==
    PayEntry(i, "jsapi_pay", "POST", UrlOf("jsapi_pay"), params)

micro_pay(i, params) ==
    PayEntry(i, "micro_pay", "POST", UrlOf("micro_pay"), params)

native_pay(i, params) ==
    PayEntry(i, "native_pay", "POST", UrlOf("native_pay"), params)

\* line 74: let body = ""
GetEntry(i, o, url) ==
    /\ Enter(i, [op |-> o, method |-> "GET", url |-> url, json |-> EmptyBody,
                 referer |-> ""])
    /\ body' = [body EXCEPT ![i] = Some(EmptyBody)]
    /\ pc' = [pc EXCEPT ![i] = "build_header"]
    /\ UNCHANGED <<client, certData, signedReq, signedHdr, sentReq, nSign,
                   nSend, resp, result>>

get_pay(i, url) == GetEntry(i, "get_pay", url)

\* certificates asking for the wrong endpoint
certificates_wrong_url(i) ==
    GetEntry(i, "certificates", UrlOf("native_pay"))

certificates(i) == GetEntry(i, "certificates", UrlOf("certificates"))

\* lines 172-173 and 195-196: let body = params.to_json()
PostEntry(i, o, params) ==
    /\ Enter(i, [op |-> o, method |-> "POST", url |-> UrlOf(o),
                 json |-> params, referer |-> ""])
    /\ body' = [body EXCEPT ![i] = Some(params)]
    /\ pc' = [pc EXCEPT ![i] = "build_header"]
    /\ UNCHANGED <<client, certData, signedReq, signedHdr, sentReq, nSign,
                   nSend, resp, result>>

refunds(i, params) == PostEntry(i, "refunds", params)

transfer_bills(i, params) == PostEntry(i, "transfer_bills", params)

(***************************************************************************)
(* Signing, sending and awaiting the response                              *)
(***************************************************************************)
\* self.build_header(method, url, body) returns the header map
build_header_ok(i, ts, nonce) ==
    /\ pc[i] = "build_header"
    /\ signedReq' = [signedReq EXCEPT ![i] =
           Some(<<SignMethod(call[i]), call[i].url, body[i].v>>)]
    /\ signedHdr' = [signedHdr EXCEPT ![i] =
           Some(build_header(client, SignMethod(call[i]), call[i].url,
                             body[i].v, ts, nonce))]
    /\ nSign' = [nSign EXCEPT ![i] = @ + 1]
    /\ pc' = [pc EXCEPT ![i] = "send"]
    /\ UNCHANGED <<client, certData, call, body, sentReq, nSend, resp, result>>

\* a signing error that is retried instead of returned
build_header_err_retry(i) ==
    /\ pc[i] = "build_header"
    /\ nSign[i] < 2
    /\ signedReq' = [signedReq EXCEPT ![i] =
           Some(<<SignMethod(call[i]), call[i].url, body[i].v>>)]
    /\ nSign' = [nSign EXCEPT ![i] = @ + 1]
    /\ UNCHANGED <<client, certData, pc, call, body, signedHdr, sentReq, nSend,
                   resp, result>>

\* self.build_header(..)? returns early with the signing error
build_header_err(i) ==
    /\ pc[i] = "build_header"
    /\ signedReq' = [signedReq EXCEPT ![i] =
           Some(<<SignMethod(call[i]), call[i].url, body[i].v>>)]
    /\ nSign' = [nSign EXCEPT ![i] = @ + 1]
    /\ result' = [result EXCEPT ![i] = Err("Sign")]
    /\ pc' = [pc EXCEPT ![i] = "done"]
    /\ UNCHANGED <<client, certData, call, body, signedHdr, sentReq, nSend,
                   resp>>

\* the request handed to the transport
Request(method, url, headers, b) ==
    [method |-> method, url |-> url, headers |-> headers, body |-> b]

\* a send whose body comes from a buffer shared by all invocations: the
\* body most recently built by any of them
send_shared_body(i) ==
    /\ pc[i] = "send"
    /\ LET j == CHOOSE k \in Slots :
                    /\ body[k].some
                    /\ \A l \in Slots : body[l].some => k >= l
       IN  sentReq' = [sentReq EXCEPT ![i] =
               Some(Request(SendMethod(call[i]),
                            FormatUrl(client.base_url, call[i].url),
                            signedHdr[i].v, body[j].v))]
    /\ nSend' = [nSend EXCEPT ![i] = @ + 1]
    /\ pc' = [pc EXCEPT ![i] = "await_send"]
    /\ UNCHANGED <<client, certData, call, body, signedReq, signedHdr, nSign,
                   resp, result>>

\* a send that leaves out .headers(headers)
send_without_headers(i) ==
    /\ pc[i] = "send"
    /\ sentReq' = [sentReq EXCEPT ![i] =
           Some(Request(SendMethod(call[i]),
                        FormatUrl(client.base_url, call[i].url),
                        RefererHeaders(""), body[i].v))]
    /\ nSend' = [nSend EXCEPT ![i] = @ + 1]
    /\ pc' = [pc EXCEPT ![i] = "await_send"]
    /\ UNCHANGED <<client, certData, call, body, signedReq, signedHdr, nSign,
                   resp, result>>

\* builder.headers(headers).body(body).send()
send(i) ==
    /\ pc[i] = "send"
    /\ sentReq' = [sentReq EXCEPT ![i] =
           Some(Request(SendMethod(call[i]),
                        FormatUrl(client.base_url, call[i].url),
                        signedHdr[i].v, body[i].v))]
    /\ nSend' = [nSend EXCEPT ![i] = @ + 1]
    /\ pc' = [pc EXCEPT ![i] = "await_send"]
    /\ UNCHANGED <<client, certData, call, body, signedReq, signedHdr, nSign,
                   resp, result>>

\* lines 147-153: the Referer header, then client.get(h5_url) is sent;
\* parse().unwrap() panics on a value that is no header value
get_weixin(i, h5_url, referer) ==
    /\ Enter(i, [op |-> "get_weixin", method |-> "GET", url |-> h5_url,
                 json |-> EmptyBody, referer |-> referer])
    /\ IF ValidHeaderValue(referer)
       THEN /\ sentReq' = [sentReq EXCEPT ![i] =
                   Some(Request("GET", <<h5_url>>, RefererHeaders(referer),
                                EmptyBody))]
            /\ nSend' = [nSend EXCEPT ![i] = @ + 1]
            /\ pc' = [pc EXCEPT ![i] = "await_send"]
       ELSE /\ pc' = [pc EXCEPT ![i] = "panicked"]
            /\ UNCHANGED <<sentReq, nSend>>
    /\ UNCHANGED <<client, certData, body, signedReq, signedHdr, nSign, resp,
                   result>>

\* responses the transport can deliver: any status, a platform signature
\* that is valid or not, a JSON object or an undecodable body
ApiResponses(o) ==
    [status : StatusCodes, sigValid : BOOLEAN,
     to : {None},
     body : {JsonRespBody(x) : x \in RespObjs(o)} \cup {BadRespBody}]

PageResponses ==
    [status : StatusCodes, sigValid : {FALSE},
     to : {None},
     body : {TextRespBody(t) : t \in Texts} \cup {BadRespBody}]

\* send().await? fails: the error is returned
send_err(i) ==
    /\ pc[i] = "await_send"
    /\ result' = [result EXCEPT ![i] = Err("Reqwest")]
    /\ pc' = [pc EXCEPT ![i] = "done"]
    /\ UNCHANGED <<client, certData, call, body, signedReq, signedHdr, sentReq,
                   nSign, nSend, resp>>

\* send().await? yields the response r to the request of invocation i
send_ok(i, r) ==
    /\ pc[i] = "await_send"
    /\ resp' = [resp EXCEPT ![i] = Some([r EXCEPT !.to = sentReq[i]])]
    /\ pc' = [pc EXCEPT ![i] = "await_body"]
    /\ UNCHANGED <<client, certData, call, body, signedReq, signedHdr, sentReq,
                   nSign, nSend, result>>

\* what the method returns once the body is decoded: json::<R>().await
\* .map(Ok)?, followed in app_pay, jsapi_pay and micro_pay by the closure
Decoded(c, o, r) ==
    LET d == json_decode(o, r.body)
    IN  IF d.some
        THEN Ok(IF o \in SignDataOps THEN MapSignData(c, o, d.v) ELSE d.v)
        ELSE Err("Decode")

json_await(i) ==
    /\ pc[i] = "await_body"
    /\ call[i].op \in SignedOps
    /\ result' = [result EXCEPT ![i] = Decoded(client, call[i].op, resp[i].v)]
    /\ pc' = [pc EXCEPT ![i] = "done"]
    /\ UNCHANGED <<client, certData, call, body, signedReq, signedHdr, sentReq,
                   nSign, nSend, resp>>

\* text().await? followed by the scan
text_await(i) ==
    /\ pc[i] = "await_body"
    /\ call[i].op = "get_weixin"
    /\ result' = [result EXCEPT ![i] =
           IF resp[i].v.body.kind = "text"
           THEN ScanWeixin(resp[i].v.body.text)
           ELSE Err("Reqwest")]
    /\ pc' = [pc EXCEPT ![i] = "done"]
    /\ UNCHANGED <<client, certData, call, body, signedReq, signedHdr, sentReq,
                   nSign, nSend, resp>>

\* the future is dropped at one of its await points
cancel(i) ==
    /\ pc[i] \in {"await_send", "await_body"}
    /\ pc' = [pc EXCEPT ![i] = "dropped"]
    /\ UNCHANGED <<client, certData, call, body, signedReq, signedHdr, sentReq,
                   nSign, nSend, resp, result>>

\* a return that forgets the listing held when a refresh did not succeed
return_clearing(i) ==
    /\ pc[i] \in {"done", "dropped", "panicked"}
    /\ certData' = IF call[i].op = "certificates"
                   THEN IF result[i].tag = "ok"
                        THEN Some(result[i].value) ELSE None
                   ELSE certData
    /\ pc' = [pc EXCEPT ![i] = "idle"]
    /\ call' = [call EXCEPT ![i] = NoCall]
    /\ body' = [body EXCEPT ![i] = None]
    /\ signedReq' = [signedReq EXCEPT ![i] = None]
    /\ signedHdr' = [signedHdr EXCEPT ![i] = None]
    /\ sentReq' = [sentReq EXCEPT ![i] = None]
    /\ nSign' = [nSign EXCEPT ![i] = 0]
    /\ nSend' = [nSend EXCEPT ![i] = 0]
    /\ resp' = [resp EXCEPT ![i] = None]
    /\ result' = [result EXCEPT ![i] = NoResult]
    /\ UNCHANGED client

\* the caller takes the result; a certificate listing it got is kept
return(i) ==
    /\ pc[i] \in {"done", "dropped", "panicked"}
    /\ certData' = IF call[i].op = "certificates" /\ result[i].tag = "ok"
                   THEN Some(result[i].value)
                   ELSE certData
    /\ pc' = [pc EXCEPT ![i] = "idle"]
    /\ call' = [call EXCEPT ![i] = NoCall]
    /\ body' = [body EXCEPT ![i] = None]
    /\ signedReq' = [signedReq EXCEPT ![i] = None]
    /\ signedHdr' = [signedHdr EXCEPT ![i] = None]
    /\ sentReq' = [sentReq EXCEPT ![i] = None]
    /\ nSign' = [nSign EXCEPT ![i] = 0]
    /\ nSend' = [nSend EXCEPT ![i] = 0]
    /\ resp' = [resp EXCEPT ![i] = None]
    /\ result' = [result EXCEPT ![i] = NoResult]
    /\ UNCHANGED client

(***************************************************************************)
(* Specifications                                                          *)
(***************************************************************************)
Responses(o) == IF o = "get_weixin" THEN PageResponses ELSE ApiResponses(o)

\* a caller starts a method on a slot that runs none
Idle(i) == pc[i] = "idle"

Next ==
    \/ \E i \in Slots : Idle(i) /\
           \E m \in HttpMethod, u \in PayPaths, j \in JsonStrs : pay(i, m, u, j)
    \/ \E i \in Slots : Idle(i) /\ \E j \in JsonStrs : h5_pay(i, j)
    \/ \E i \in Slots : Idle(i) /\ \E j \in JsonStrs : app_pay(i, j)
    \/ \E i \in Slots : Idle(i) /\ \E j \in JsonStrs : jsapi_pay(i, j)
    \/ \E i \in Slots : Idle(i) /\ \E j \in JsonStrs : micro_pay(i, j)
    \/ \E i \in Slots : Idle(i) /\ \E j \in JsonStrs : native_pay(i, j)
    \/ \E i \in Slots : Idle(i) /\ \E u \in CallerPaths : get_pay(i, u)
    \/ \E i \in Slots : certificates(i)
    \/ \E i \in Slots : Idle(i) /\ \E j \in JsonStrs : refunds(i, j)
    \/ \E i \in Slots : Idle(i) /\ \E j \in JsonStrs : transfer_bills(i, j)
    \/ \E i \in Slots : Idle(i) /\
           \E h \in H5Urls, r \in Referers : get_weixin(i, h, r)
    \/ \E i \in Slots, ts \in Timestamps, n \in Nonces :
           build_header_ok(i, ts, n)
    \/ \E i \in Slots : build_header_err(i)
    \/ \E i \in Slots : send(i)
    \/ \E i \in Slots : send_err(i)
    \/ \E i \in Slots : pc[i] = "await_send" /\
           \E r \in Responses(call[i].op) : send_ok(i, r)
    \/ \E i \in Slots : json_await(i)
    \/ \E i \in Slots : text_await(i)
    \/ \E i \in Slots : cancel(i)
    \/ \E i \in Slots : return(i)

Spec == Init /\ [][Next]_vars

(***************************************************************************)
(* Concurrent invocations of pay, get_pay, refunds and transfer_bills on   *)
(* one shared client, on a reduced set of inputs                           *)
(***************************************************************************)
ConcMethods == {"PUT"}

ConcJsonStrs == {ObjectBody(<<>>), ObjectBody(<<(<<"out_trade_no", "v1">>)>>)}

ConcParams == {ObjectBody(<<(<<"out_trade_no", "v2">>)>>)}

ConcNonces == {"n1"}

ConcResponses ==
    [status : {200}, sigValid : {TRUE}, to : {None},
     body : {JsonRespBody([k \in {"prepay_id"} |-> RespVal(k)]), BadRespBody}]

NextConc ==
    \/ \E i \in Slots : Idle(i) /\
           \E m \in ConcMethods, u \in PayPaths, j \in ConcJsonStrs :
               pay(i, m, u, j)
    \/ \E i \in Slots : Idle(i) /\ \E u \in PayPaths : get_pay(i, u)
    \/ \E i \in Slots : Idle(i) /\ \E j \in ConcParams : refunds(i, j)
    \/ \E i \in Slots : Idle(i) /\ \E j \in ConcParams : transfer_bills(i, j)
    \/ \E i \in Slots, ts \in Timestamps, n \in ConcNonces :
           build_header_ok(i, ts, n)
    \/ \E i \in Slots : build_header_err(i)
    \/ \E i \in Slots : send(i)
    \/ \E i \in Slots : send_err(i)
    \/ \E i \in Slots, r \in ConcResponses : send_ok(i, r)
    \/ \E i \in Slots : json_await(i)
    \/ \E i \in Slots : cancel(i)
    \/ \E i \in Slots : return(i)

SpecConc == InitConc /\ [][NextConc]_vars

(***************************************************************************)
(* Properties                                                              *)
(***************************************************************************)
\* methods whose responses carry business content
BusinessOps == PayOps \cup {"get_pay"} \cup PostOps

\* C1: a response payload is returned as Ok by pay, get_pay, refunds,
\* transfer_bills and the endpoint wrappers only for a response whose
\* platform signature has been verified, so never for a response whose
\* signature is invalid, whatever the HTTP status.
C1_PayloadOnlyAfterVerification ==
    \A i \in Slots :
        (call[i].op \in BusinessOps /\ result[i].tag = "ok")
            => resp[i].v.sigValid

\* C2: every request sent by any public method, get_weixin included, follows
\* a successful build_header call of the same invocation and carries the
\* headers that call returned.
C2_EverySendIsSigned ==
    \A i \in Slots :
        sentReq[i].some
            => /\ nSign[i] >= 1
               /\ signedHdr[i].some
               /\ sentReq[i].v.headers = signedHdr[i].v

\* C2 (amended): every request sent by pay, get_pay, certificates, refunds,
\* transfer_bills and the endpoint wrappers follows a successful build_header
\* call of the same invocation and carries the headers that call returned;
\* get_weixin sends its GET without calling build_header, carrying the
\* Referer header only.
C2_SignedMethodsSendSigned ==
    \A i \in Slots :
        sentReq[i].some
            => IF call[i].op = "get_weixin"
               THEN /\ nSign[i] = 0
                    /\ ~signedHdr[i].some
                    /\ sentReq[i].v.headers.kind = "referer"
                    /\ sentReq[i].v.headers.referer = call[i].referer
               ELSE /\ nSign[i] >= 1
                    /\ signedHdr[i].some
                    /\ signedHdr[i].v.kind = "authorization"
                    /\ sentReq[i].v.headers = signedHdr[i].v

C2_Witness ==
    \E i \in Slots :
        /\ call[i].op \in SignedOps
        /\ sentReq[i].some
        /\ resp[i].some

\* C3: in pay, get_pay, refunds and transfer_bills the method, path and body
\* handed to build_header are the ones transmitted: same method, URL equal to
\* base_url followed by the signed path, identical body, and the signature
\* carried is over that triple.
C3_SignedTripleIsSent ==
    \A i \in Slots :
        (call[i].op \in SignedOps /\ sentReq[i].some)
            => /\ signedReq[i].some
               /\ sentReq[i].v.method = signedReq[i].v[1]
               /\ sentReq[i].v.url = <<client.base_url, signedReq[i].v[2]>>
               /\ sentReq[i].v.body = signedReq[i].v[3]
               /\ sentReq[i].v.headers.signature[1] = sentReq[i].v.method
               /\ sentReq[i].v.headers.signature[2] = sentReq[i].v.url[2]
               /\ sentReq[i].v.headers.signature[5] = sentReq[i].v.body

C3_Witness ==
    \E i \in Slots :
        /\ call[i].op = "pay"
        /\ call[i].method = "PUT"
        /\ sentReq[i].some
        /\ sentReq[i].v.body.pairs # <<>>

\* build_header was called and returned no headers
SigningFailed(i) == signedReq[i].some /\ ~signedHdr[i].some

\* C4: when build_header fails in pay, get_pay, refunds or transfer_bills the
\* invocation returns Err, sends no request and has called build_header
\* exactly once; and no invocation sends more than one request.
C4_SigningFailureIsFatal ==
    \A i \in Slots :
        /\ nSend[i] <= 1
        /\ (call[i].op \in SignedOps /\ SigningFailed(i))
               => /\ pc[i] = "done"
                  /\ result[i].tag = "err"
                  /\ nSend[i] = 0
                  /\ ~sentReq[i].some
                  /\ nSign[i] = 1

C4_Witness ==
    \E i \in Slots :
        /\ call[i].op = "transfer_bills"
        /\ SigningFailed(i)
        /\ pc[i] = "done"

\* C5: certificates() signs and sends a GET to /v3/certificates with an
\* empty body, and returns the decoded listing whether or not the response
\* signature verifies and whether or not any certificate is held yet.
C5_CertificatesBootstrap ==
    \A i \in Slots :
        call[i].op = "certificates"
            => /\ signedReq[i].some
                   => signedReq[i].v = <<"GET", "/v3/certificates", EmptyBody>>
               /\ sentReq[i].some
                   => /\ sentReq[i].v.method = "GET"
                      /\ sentReq[i].v.url =
                             <<client.base_url, "/v3/certificates">>
                      /\ sentReq[i].v.body = EmptyBody
                      /\ sentReq[i].v.headers.kind = "authorization"
                      /\ sentReq[i].v.headers.signature[5] = EmptyBody
               /\ (pc[i] = "done" /\ resp[i].some
                       /\ resp[i].v.body.kind = "json")
                   => /\ result[i].tag = "ok"
                      /\ \A f \in DOMAIN result[i].value :
                             result[i].value[f].some
                                 <=> f \in DOMAIN resp[i].v.body.obj

C5_Witness ==
    \E i \in Slots :
        /\ call[i].op = "certificates"
        /\ ~certData.some
        /\ result[i].tag = "ok"
        /\ ~resp[i].v.sigValid

\* the invocation in slot i has failed or has been abandoned
Failed(i) == result[i].tag = "err" \/ pc[i] = "dropped"

\* C6: a certificates() call that fails at signing, sending or decoding, or
\* is dropped in flight, changes neither the client nor the listing held from
\* an earlier successful call, reports Err when it fails, and leaves its slot
\* as it was before the call.
C6_FailedRefreshKeepsData ==
    [][\A i \in Slots :
          /\ client' = client
          /\ (call[i].op = "certificates" /\ pc'[i] # pc[i])
                 => /\ (Failed(i) \/ pc'[i] # "idle") => certData' = certData
                    /\ (pc'[i] = "done"
                            /\ ~(resp[i].some /\ resp[i].v.body.kind = "json"))
                           => result'[i].tag = "err"
                    /\ pc'[i] = "idle"
                           => /\ call'[i] = NoCall
                              /\ result'[i] = NoResult
                              /\ ~sentReq'[i].some]_vars

C6_Witness ==
    \E i \in Slots :
        /\ call[i].op = "certificates"
        /\ certData.some
        /\ Failed(i)

\* the page has a line containing weixin://; the scheme holds no newline, so
\* that is the page containing it
HasWeixinLine(text) == contains(text, Weixin)

Delimiters == {Quote, Newline}

\* s is the piece of text between delimiters (or the ends of the text) that
\* starts at position p
PieceAt(text, p, s) ==
    /\ p >= 1
    /\ p + Len(s) - 1 <= Len(text)
    /\ SubSeq(text, p, p + Len(s) - 1) = s
    /\ \A k \in 1..Len(s) : s[k] \notin Delimiters
    /\ p = 1 \/ text[p - 1] \in Delimiters
    /\ p + Len(s) - 1 = Len(text) \/ text[p + Len(s)] \in Delimiters

\* s is the first quote-delimited segment containing weixin:// of the first
\* line containing it: a piece containing it with no occurrence before it
FirstWeixinPiece(text, s) ==
    /\ contains(s, Weixin)
    /\ \E p \in 1..Len(text) :
           /\ PieceAt(text, p, s)
           /\ ~contains(SubSeq(text, 1, p - 1), Weixin)

\* C8: on a fetched page with a line containing weixin://, get_weixin returns
\* Ok(Some(s)) where s is the first quote-delimited segment containing it of
\* the first such line; it returns Err(WeixinNotFound) exactly when no line
\* contains it; it never returns Ok(None).
C8_GetWeixinScan ==
    \A i \in Slots :
        (call[i].op = "get_weixin" /\ pc[i] = "done" /\ resp[i].some
             /\ resp[i].v.body.kind = "text")
            => LET text == resp[i].v.body.text
               IN  /\ HasWeixinLine(text)
                       => /\ result[i].tag = "ok"
                          /\ result[i].value.some
                          /\ FirstWeixinPiece(text, result[i].value.v)
                   /\ (result[i].tag = "err"
                           /\ result[i].err = "WeixinNotFound")
                       <=> ~HasWeixinLine(text)
                   /\ ~(result[i].tag = "ok" /\ ~result[i].value.some)

\* a page whose first weixin:// line holds a quoted piece before the one
\* containing the scheme
C8_Witness ==
    \E i \in Slots :
        /\ call[i].op = "get_weixin"
        /\ result[i].tag = "ok"
        /\ result[i].value.some
        /\ resp[i].v.body.text # result[i].value.v
        /\ resp[i].v.body.text[1] = Quote

\* the value the caller's parameters give key k: that of its last member
CallerValue(ps, k) ==
    ps[CHOOSE n \in 1..Len(ps) :
          /\ ps[n][1] = k
          /\ \A m \in (n + 1)..Len(ps) : ps[m][1] # k][2]

CallerKeys(ps) == {ps[n][1] : n \in 1..Len(ps)}

\* the members of a body text, as the receiver reads them
BodyObject(b) ==
    [k \in CallerKeys(b.pairs) |-> CallerValue(b.pairs, k)]

\* C9: the body pay signs and sends is the object of the parameters' to_json
\* with appid, mchid and notify_url set to the client's values, overwriting
\* the caller's, every other member unchanged; refunds and transfer_bills
\* sign and send the to_json output itself.
C9_PayBodyMembers ==
    \A i \in Slots :
        signedReq[i].some
            => LET b == signedReq[i].v[3]
                   ps == call[i].json.pairs
               IN  /\ sentReq[i].some => sentReq[i].v.body = b
                   /\ call[i].op \in PayOps
                          => /\ b.kind = "object"
                             /\ DOMAIN BodyObject(b) =
                                    CallerKeys(ps)
                                        \cup {"appid", "mchid", "notify_url"}
                             /\ BodyObject(b)["appid"] = client.appid
                             /\ BodyObject(b)["mchid"] = client.mch_id
                             /\ BodyObject(b)["notify_url"] = client.notify_url
                             /\ \A k \in CallerKeys(ps)
                                        \ {"appid", "mchid", "notify_url"} :
                                    BodyObject(b)[k] = CallerValue(ps, k)
                   /\ call[i].op \in PostOps => b = call[i].json

C9_Witness ==
    \E i \in Slots :
        /\ call[i].op = "h5_pay"
        /\ "appid" \in CallerKeys(call[i].json.pairs)
        /\ "out_trade_no" \in CallerKeys(call[i].json.pairs)
        /\ sentReq[i].some

\* what json::<R>() makes of a JSON body: a field per member of R, set
\* exactly when the body has the member
FieldsOf(obj, fs) == [f \in fs |-> IF f \in DOMAIN obj THEN Some(obj[f]) ELSE None]

PayErrors == {"Json", "Sign", "Reqwest", "Decode"}

\* the sign data the wrapper in slot i computes from prepay_id p
ExpectedSignData(i, p) ==
    [app_id |-> client.appid,
     package |-> <<(CASE call[i].op = "app_pay" -> ""
                      [] call[i].op = "jsapi_pay" -> "prepay_id="
                      [] call[i].op = "micro_pay" -> "prepay_id="), p>>]

OwnBodyOk(i, b) ==
    LET c == call[i]
    IN  CASE c.op \in PayOps ->
               /\ b.kind = "object"
               /\ BodyObject(b) =
                      [k \in CallerKeys(c.json.pairs)
                              \cup {"appid", "mchid", "notify_url"} |->
                          CASE k = "appid" -> TheClient.appid
                            [] k = "mchid" -> TheClient.mch_id
                            [] k = "notify_url" -> TheClient.notify_url
                            [] OTHER -> CallerValue(c.json.pairs, k)]
          [] c.op \in GetOps -> b = EmptyBody
          [] c.op \in PostOps -> b = c.json

\* what invocation i has signed, sent, received and returned is its own
Own(i) ==
    /\ signedHdr[i].some
           => /\ signedHdr[i].v.signature[1] = call[i].method
              /\ signedHdr[i].v.signature[2] = call[i].url
              /\ OwnBodyOk(i, signedHdr[i].v.signature[5])
              /\ signedHdr[i].v.mchid = TheClient.mch_id
    /\ sentReq[i].some
           => /\ sentReq[i].v.headers = signedHdr[i].v
              /\ sentReq[i].v.method = call[i].method
              /\ sentReq[i].v.url = <<TheClient.base_url, call[i].url>>
              /\ OwnBodyOk(i, sentReq[i].v.body)
    /\ resp[i].some => resp[i].v.to = sentReq[i]
    /\ result[i].tag = "ok"
           => result[i].value =
                  FieldsOf(resp[i].v.body.obj, DOMAIN result[i].value)

\* a step that is not a step of invocation i leaves everything of i alone
Untouched(i) ==
    pc'[i] = pc[i]
        => /\ call'[i] = call[i]
           /\ body'[i] = body[i]
           /\ signedReq'[i] = signedReq[i]
           /\ signedHdr'[i] = signedHdr[i]
           /\ sentReq'[i] = sentReq[i]
           /\ resp'[i] = resp[i]
           /\ result'[i] = result[i]

\* C7: in any interleaving of concurrent pay, get_pay, refunds and
\* transfer_bills invocations on one client, no step writes the client or
\* another invocation's state, each invocation signs and sends the headers
\* and body computed from its own method, path and parameters, and returns
\* the decoding of the response to its own request.
C7_InvocationsIndependent ==
    [][/\ client' = client
       /\ certData' = certData
       /\ \A i \in Slots : Untouched(i)
       /\ \A i \in Slots : Own(i)']_vars

C7_Witness ==
    \E i, j \in Slots :
        /\ i # j
        /\ pc[i] = "send"
        /\ result[j].tag = "ok"
        /\ call[i].op = "pay"
        /\ call[j].op = "pay"
        /\ body[i] # body[j]

====
